---- MODULE Spec2Model ----
(***************************************************************************)
(* Verification model of the mmb verifier core (src/mmb/mod.rs):           *)
(* the Type bit codec and sorts_compatible, the bound-variable counter,    *)
(* load_args, verify_termdef, verify_assert and the verify1 dispatcher.    *)
(*                                                                         *)
(* A u64 is modelled as the set of its set bit positions (a subset of      *)
(* 0..63), so that the source's masks, shifts and xor are computed bit by  *)
(* bit at full width.                                                      *)
(***************************************************************************)
EXTENDS Naturals, Integers, Sequences, FiniteSets, TLC

(***************************************************************************)
(* Bounds of the model.                                                    *)
(***************************************************************************)
\* longest binder list handed to load_args (return slot included)
MaxArgs == 2
\* most instructions of one proof replay (each pushes or saves one item)
MaxSteps == 2
\* most declarations committed to the Outline
MaxDeclars == 1
\* most consecutive take_next_bv calls of the counter driver
MaxCalls == 57
\* longest byte buffer handed to parse_header
MaxLen == 41

(***************************************************************************)
(* 64-bit words as sets of bit positions.                                  *)
(***************************************************************************)
Bits64 == 0..63

BitAnd(a, b) == a \cap b

BitXor(a, b) == (a \ b) \cup (b \ a)

BitNot(a) == Bits64 \ a

\* a >> n
Shr(a, n) == {b - n : b \in {x \in a : x >= n}}

\* a * 2 on u64; the top bit falls off (the debug build panics instead,
\* which take_next_bv's assertion makes unreachable)
MulTwo(a) == {b + 1 : b \in {x \in a : x < 63}}

\* a - 1 on u64
MinusOne(a) ==
  IF a = {} THEN Bits64
  ELSE LET low == CHOOSE b \in a : \A c \in a : b <= c
       IN  (a \ {low}) \cup {c \in Bits64 : c < low}

\* the word 1 << n
Bit(n) == {n}

TYPE_BOUND_MASK == Bit(63)

TYPE_DEPS_MASK == MinusOne(Bit(56))

SORT_PURE == Bit(0)
SORT_STRICT == Bit(1)
SORT_PROVABLE == Bit(2)
SORT_FREE == Bit(3)

(***************************************************************************)
(* sorts_compatible                                                        *)
(***************************************************************************)
\* a cast check that compares the dependency fields instead of the high bits
sorts_compatible_deps(from, to) ==
  LET diff == BitXor(from, to)
      c1 == BitAnd(diff, TYPE_DEPS_MASK) = {}
      c2 == BitAnd(BitAnd(diff, BitNot(TYPE_BOUND_MASK)), BitNot(TYPE_DEPS_MASK)) = {}
      c3 == BitAnd(from, TYPE_BOUND_MASK) # {}
  IN  c1 \/ (c2 /\ c3)

\* a cast check whose first test looks at 'from' alone instead of the difference
sorts_compatible_nodiff(from, to) ==
  LET diff == BitXor(from, to)
      c1 == BitAnd(from, BitNot(TYPE_DEPS_MASK)) = {}
      c2 == BitAnd(BitAnd(diff, BitNot(TYPE_BOUND_MASK)), BitNot(TYPE_DEPS_MASK)) = {}
      c3 == BitAnd(from, TYPE_BOUND_MASK) # {}
  IN  c1 \/ (c2 /\ c3)

\* sorts_compatible with the cast allowed towards a bound variable
sorts_compatible_tobound(from, to) ==
  LET diff == BitXor(from, to)
      c1 == BitAnd(diff, BitNot(TYPE_DEPS_MASK)) = {}
      c2 == BitAnd(BitAnd(diff, BitNot(TYPE_BOUND_MASK)), BitNot(TYPE_DEPS_MASK)) = {}
      c3 == BitAnd(to, TYPE_BOUND_MASK) # {}
  IN  c1 \/ (c2 /\ c3)

sorts_compatible(from, to) ==
  LET diff == BitXor(from, to)
      c1 == BitAnd(diff, BitNot(TYPE_DEPS_MASK)) = {}
      c2 == BitAnd(BitAnd(diff, BitNot(TYPE_BOUND_MASK)), BitNot(TYPE_DEPS_MASK)) = {}
      c3 == BitAnd(from, TYPE_BOUND_MASK) # {}
  IN  c1 \/ (c2 /\ c3)

(***************************************************************************)
(* The Type codec (crate::util::Type): bit 63 is the bound flag, bits      *)
(* 56..62 hold the sort, bits 0..55 the dependency mask or, for a bound    *)
(* variable, its digit.                                                    *)
(***************************************************************************)
is_bound(ty) == BitAnd(ty, TYPE_BOUND_MASK) # {}

\* the sort number held in bits 56..62
RECURSIVE BitsValue(_)
BitsValue(S) ==
  IF S = {} THEN 0
  ELSE LET b == CHOOSE x \in S : TRUE
       IN  2 ^ b + BitsValue(S \ {b})

sort(ty) == BitsValue({b - 56 : b \in {x \in ty : x >= 56 /\ x <= 62}})

\* Res<u64>: <<"Ok", word>> or <<"Err">>
bound_digit(ty) ==
  IF is_bound(ty) THEN <<"Ok", BitAnd(ty, TYPE_DEPS_MASK)>> ELSE <<"Err">>

deps(ty) ==
  IF is_bound(ty) THEN <<"Err">> ELSE <<"Ok", BitAnd(ty, TYPE_DEPS_MASK)>>

\* the Type with the given flag, sort number (0..3 here) and low bits
MkType(bound, s, low) ==
  low \cup (IF s % 2 = 1 THEN {56} ELSE {})
      \cup (IF (s \div 2) % 2 = 1 THEN {57} ELSE {})
      \cup (IF bound THEN {63} ELSE {})

(***************************************************************************)
(* The Outline's sort table: sort 0 carries no modifier, sort 1 is         *)
(* PROVABLE, sort 2 is STRICT; no sort 3 is declared.                      *)
(***************************************************************************)
SortTable == <<{}, SORT_PROVABLE, SORT_STRICT>>

\* Res<SortMods>
get_sort_mods(n) ==
  IF n + 1 \in DOMAIN SortTable THEN <<"Ok", SortTable[n + 1]>> ELSE <<"Err">>

(***************************************************************************)
(* Stack and heap items.  Every item is a record                           *)
(*   [tag, node, n, ty, sub]                                               *)
(* tag  : "Expr", "Proof", "Conv" or "CoConv"                              *)
(* node : "Var" or "App" for an Expr, "-" otherwise                        *)
(* n    : idx of a Var, term_num of an App                                 *)
(* ty   : the Type of an Expr                                              *)
(* sub  : the items referenced (Proof: one, Conv and CoConv: two)          *)
(***************************************************************************)
ExprVar(idx, ty) == [tag |-> "Expr", node |-> "Var", n |-> idx, ty |-> ty, sub |-> <<>>]

ExprApp(term_num, ty) == [tag |-> "Expr", node |-> "App", n |-> term_num, ty |-> ty, sub |-> <<>>]

Proof(p) == [tag |-> "Proof", node |-> "-", n |-> 0, ty |-> {}, sub |-> <<p>>]

Conv(a, b) == [tag |-> "Conv", node |-> "-", n |-> 0, ty |-> {}, sub |-> <<a, b>>]

CoConv(a, b) == [tag |-> "CoConv", node |-> "-", n |-> 0, ty |-> {}, sub |-> <<a, b>>]

\* Res<Type>
get_ty(item) ==
  IF item.tag = "Expr" THEN <<"Ok", item.ty>> ELSE <<"Err">>

(***************************************************************************)
(* Inputs of the model.                                                    *)
(***************************************************************************)
\* low fields (dependency masks and bound digits) of the binders
LowPool == {{}, Bit(0), Bit(1), Bit(2)}

\* the binders an Args iterator may yield
TypePool ==
  {MkType(FALSE, s, low) : s \in {0, 2}, low \in LowPool}
    \cup {MkType(TRUE, s, low) : s \in {0, 2, 3}, low \in LowPool}

\* the items a proof instruction may build and push
PushPool ==
  LET e0 == ExprApp(0, MkType(FALSE, 0, {}))
  IN  {e0, Proof(e0), Conv(e0, e0), CoConv(e0, e0)}

Kinds == {"Sort", "TermDef", "Axiom", "Thm"}

(***************************************************************************)
(* State.                                                                  *)
(***************************************************************************)
VARIABLES
  outline,        \* the Outline's committed declarations, in order
  bump,           \* number of live allocations of the arena
  stack, heap, ustack, uheap, hstack, next_bv,   \* the fields of MmbState
  pc,             \* position of the verify1 call in progress, or "idle"
  stmt,           \* verify1's stmt: [kind, num]
  decl,           \* the Term or Assert looked up: [is_def, num_args]
  proof_null,     \* proof.is_null()
  args,           \* the binders the Args iterator has yielded so far
  final_val,      \* final_val of verify_termdef / verify_assert, <<>> if unset
  result,         \* outcome of the latest verify1 call
  entry_outline,  \* the Outline as it was when the latest call was made
  bv_pc, outgoing, issued,   \* a take_next_bv call: position, local, digits returned
  from_ty, to_ty, compat,    \* a sorts_compatible call: arguments, and result (<<>> if unset)
  mmb, source,    \* a parse_header call: the buffer, and the bytes not yet consumed
  hdr_pc,         \* the statement of parse_header that runs next
  header,         \* the fields parse_header has parsed so far, in layout order
  hdr_result      \* outcome of parse_header

vars == <<outline, bump, stack, heap, ustack, uheap, hstack, next_bv, pc, stmt,
          decl, proof_null, args, final_val, result, entry_outline,
          bv_pc, outgoing, issued, from_ty, to_ty, compat,
          mmb, source, hdr_pc, header, hdr_result>>

session == <<stack, heap, ustack, uheap, hstack, next_bv, final_val>>
frame == <<stmt, decl, proof_null, args>>
bv_vars == <<bv_pc, outgoing, issued>>
compat_vars == <<from_ty, to_ty, compat>>
hdr_vars == <<mmb, source, hdr_pc, header, hdr_result>>

\* no parse_header call is under way
NoHeader ==
  /\ mmb = <<>> /\ source = <<>>
  /\ hdr_pc = "idle"
  /\ header = <<>>
  /\ hdr_result = "none"

NoStmt == [kind |-> "none", num |-> <<>>]
NoDecl == [is_def |-> FALSE, num_args |-> 0]

\* no verify1 call has been made: there is no session
Init ==
  /\ outline = <<>>
  /\ bump = 0
  /\ stack = <<>> /\ heap = <<>> /\ ustack = <<>> /\ uheap = <<>> /\ hstack = <<>>
  /\ next_bv = {}
  /\ pc = "idle"
  /\ stmt = NoStmt
  /\ decl = NoDecl
  /\ proof_null = TRUE
  /\ args = <<>>
  /\ final_val = <<>>
  /\ result = "none"
  /\ entry_outline = <<>>
  /\ bv_pc = "idle" /\ outgoing = {} /\ issued = <<>>
  /\ from_ty = {} /\ to_ty = {} /\ compat = <<>>
  /\ NoHeader

\* new_from without bump.reset()
new_from_noreset ==
  /\ bump' = bump
  /\ stack' = <<>>
  /\ heap' = <<>>
  /\ ustack' = <<>>
  /\ uheap' = <<>>
  /\ hstack' = <<>>
  /\ next_bv' = Bit(0)

\* new_from building the session out of whatever the fields held
new_from_stale ==
  /\ bump' = 0
  /\ UNCHANGED <<stack, heap, ustack, uheap, hstack, next_bv>>

(***************************************************************************)
(* MmbState::new_from                                                      *)
(***************************************************************************)
new_from ==
  /\ bump' = 0
  /\ stack' = <<>>
  /\ heap' = <<>>
  /\ ustack' = <<>>
  /\ uheap' = <<>>
  /\ hstack' = <<>>
  /\ next_bv' = Bit(0)

(***************************************************************************)
(* Leaving verify_termdef / verify_assert and verify1.                     *)
(***************************************************************************)
\* the temporary MmbState is dropped when the call that used it returns; what
\* it allocated in the arena stays allocated (bump is untouched)
DropSession ==
  /\ stack' = <<>>
  /\ heap' = <<>>
  /\ ustack' = <<>>
  /\ uheap' = <<>>
  /\ hstack' = <<>>
  /\ next_bv' = {}
  /\ final_val' = <<>>

\* an error return that has the declaration recorded all the same
ReturnErr_commit(msg) ==
  /\ pc' = "idle"
  /\ result' = msg
  /\ DropSession
  /\ outline' = Append(outline, stmt)

\* return Err(..) from verify1, through any number of '?'
ReturnErr(msg) ==
  /\ pc' = "idle"
  /\ result' = msg
  /\ DropSession
  /\ UNCHANGED outline

\* a failed assert! or unwrap: the program aborts
Panic(msg) ==
  /\ pc' = "panicked"
  /\ result' = msg
  /\ UNCHANGED outline

(***************************************************************************)
(* MmbState::verify1, up to the call of verify_termdef / verify_assert.    *)
(***************************************************************************)
\* verify1 without the null-proof check on plain terms
verify1_anyproof(kind, num, found, d, pnull) ==
  /\ pc = "idle"
  /\ Len(outline) < MaxDeclars
  /\ stmt' = [kind |-> kind, num |-> num]
  /\ proof_null' = pnull
  /\ entry_outline' = outline
  /\ args' = <<>>
  /\ UNCHANGED <<bv_vars, compat_vars, hdr_vars>>
  /\ IF kind = "Sort"
     THEN /\ decl' = NoDecl
          /\ UNCHANGED bump
          /\ IF ~pnull
             THEN ReturnErr("mmb sorts must have null proof iterators")
             ELSE /\ pc' = "add_declar"
                  /\ result' = "none"
                  /\ UNCHANGED <<outline, session>>
     ELSE IF num = <<>>
     THEN /\ decl' = NoDecl
          /\ UNCHANGED <<bump, session>>
          /\ Panic("panic: num.unwrap()")
     ELSE IF ~found
     THEN /\ decl' = NoDecl
          /\ UNCHANGED bump
          /\ ReturnErr(IF kind = "TermDef" THEN "get_term_by_num" ELSE "get_assert_by_num")
     ELSE /\ decl' = d
          /\ new_from
          /\ final_val' = <<>>
          /\ pc' = "load_args"
          /\ result' = "none"
          /\ UNCHANGED outline

verify1(kind, num, found, d, pnull) ==
  /\ pc = "idle"
  /\ Len(outline) < MaxDeclars
  /\ stmt' = [kind |-> kind, num |-> num]
  /\ proof_null' = pnull
  /\ entry_outline' = outline
  /\ args' = <<>>
  /\ UNCHANGED <<bv_vars, compat_vars, hdr_vars>>
  /\ IF kind = "Sort"
     THEN /\ decl' = NoDecl
          /\ UNCHANGED bump
          /\ IF ~pnull
             THEN ReturnErr("mmb sorts must have null proof iterators")
             ELSE /\ pc' = "add_declar"
                  /\ result' = "none"
                  /\ UNCHANGED <<outline, session>>
     ELSE IF num = <<>>
     THEN /\ decl' = NoDecl
          /\ UNCHANGED <<bump, session>>
          /\ Panic("panic: num.unwrap()")
     ELSE IF ~found
     THEN /\ decl' = NoDecl
          /\ UNCHANGED bump
          /\ ReturnErr(IF kind = "TermDef" THEN "get_term_by_num" ELSE "get_assert_by_num")
     ELSE IF kind = "TermDef" /\ ~d.is_def /\ ~pnull
     THEN /\ decl' = d
          /\ UNCHANGED bump
          /\ ReturnErr("mmb terms must have null proof iterators")
     ELSE /\ decl' = d
          /\ new_from
          /\ final_val' = <<>>
          /\ pc' = "load_args"
          /\ result' = "none"
          /\ UNCHANGED outline

\* the declarations the Outline may hold for a statement of the given kind;
\* the binders of a term end with its return slot
Decls(kind) ==
  IF kind = "TermDef" THEN [is_def : BOOLEAN, num_args : 1..MaxArgs]
  ELSE IF kind = "Sort" THEN {NoDecl}
  ELSE [is_def : {FALSE}, num_args : 0..MaxArgs]

\* the calls a driver may make; an input the call never reads is held at one value
Verify1Call ==
  \E kind \in Kinds, pnull \in BOOLEAN :
    IF kind = "Sort"
    THEN verify1(kind, <<0>>, TRUE, NoDecl, pnull)
    ELSE \/ verify1(kind, <<>>, FALSE, NoDecl, pnull)
         \/ verify1(kind, <<0>>, FALSE, NoDecl, pnull)
         \/ \E d \in Decls(kind) : verify1(kind, <<0>>, TRUE, d, pnull)

(***************************************************************************)
(* MmbState::take_next_bv                                                  *)
(***************************************************************************)
\* an assertion that never fails
take_next_bv_assert_off(out) == TRUE

\* assert!(outgoing >> 56 == 0)
take_next_bv_assert(out) == Shr(out, 56) = {}

\* self.next_bv *= 2
take_next_bv_double(bv) == MulTwo(bv)

\* <<"Ok", the digit returned, the counter afterwards>> or <<"panic", -, ->>
take_next_bv(bv) ==
  IF take_next_bv_assert(bv)
  THEN <<"Ok", bv, take_next_bv_double(bv)>>
  ELSE <<"panic", bv, bv>>

(***************************************************************************)
(* MmbState::load_args                                                     *)
(***************************************************************************)
\* the two opening make_sure!s: "Ok" or the error
load_args_pre(hp, bv) ==
  IF hp # <<>> THEN "make_sure: heap.len() == 0"
  ELSE IF bv # Bit(0) THEN "make_sure: next_bv == 1"
  ELSE "Ok"

LoadArgsEnter ==
  /\ pc = "load_args"
  /\ LET r == load_args_pre(heap, next_bv)
     IN  IF r = "Ok"
         THEN /\ pc' = "load_args_loop"
              /\ UNCHANGED <<outline, session, result>>
         ELSE ReturnErr(r)
  /\ UNCHANGED <<bump, frame, entry_outline, bv_vars, compat_vars, hdr_vars>>

\* load_args_check without the comparison of the recorded digit
load_args_check_nodigit(arg, bv) ==
  IF is_bound(arg)
  THEN LET mods == get_sort_mods(sort(arg))
       IN  IF mods[1] = "Err" THEN <<"panic: get_sort_mods().unwrap()", bv>>
           ELSE IF BitAnd(mods[2], SORT_STRICT) # {} THEN <<"make_sure: sort not strict", bv>>
           ELSE LET taken == take_next_bv(bv)
                IN  IF taken[1] = "panic" THEN <<"panic: take_next_bv", bv>>
                    ELSE <<"push", taken[3]>>
  ELSE LET dp == deps(arg)
       IN  IF dp[1] = "Err" THEN <<"panic: deps().unwrap()", bv>>
           ELSE IF BitAnd(dp[2], BitNot(MinusOne(bv))) # {} THEN <<"make_sure: deps in prefix", bv>>
           ELSE <<"push", bv>>

\* load_args_check with the mask !next_bv in place of !(next_bv - 1)
load_args_check_mask(arg, bv) ==
  IF is_bound(arg)
  THEN LET mods == get_sort_mods(sort(arg))
       IN  IF mods[1] = "Err" THEN <<"panic: get_sort_mods().unwrap()", bv>>
           ELSE IF BitAnd(mods[2], SORT_STRICT) # {} THEN <<"make_sure: sort not strict", bv>>
           ELSE LET taken == take_next_bv(bv)
                    digit == bound_digit(arg)
                IN  IF taken[1] = "panic" THEN <<"panic: take_next_bv", bv>>
                    ELSE IF digit[1] = "Err" THEN <<"bound_digit", taken[3]>>
                    ELSE IF digit[2] # taken[2] THEN <<"make_sure: bound_digit == this_bv", taken[3]>>
                    ELSE <<"push", taken[3]>>
  ELSE LET dp == deps(arg)
       IN  IF dp[1] = "Err" THEN <<"panic: deps().unwrap()", bv>>
           ELSE IF BitAnd(dp[2], BitNot(bv)) # {} THEN <<"make_sure: deps in prefix", bv>>
           ELSE <<"push", bv>>

\* load_args_check with the digit taken and compared before the sort is looked at
load_args_check_swapped(arg, bv) ==
  IF is_bound(arg)
  THEN LET mods == get_sort_mods(sort(arg))
           taken == take_next_bv(bv)
           digit == bound_digit(arg)
       IN  IF taken[1] = "panic" THEN <<"panic: take_next_bv", bv>>
           ELSE IF digit[1] = "Err" THEN <<"bound_digit", taken[3]>>
           ELSE IF digit[2] # taken[2] THEN <<"make_sure: bound_digit == this_bv", taken[3]>>
           ELSE IF mods[1] = "Err" THEN <<"panic: get_sort_mods().unwrap()", taken[3]>>
           ELSE IF BitAnd(mods[2], SORT_STRICT) # {} THEN <<"make_sure: sort not strict", taken[3]>>
           ELSE <<"push", taken[3]>>
  ELSE LET dp == deps(arg)
       IN  IF dp[1] = "Err" THEN <<"panic: deps().unwrap()", bv>>
           ELSE IF BitAnd(dp[2], BitNot(MinusOne(bv))) # {} THEN <<"make_sure: deps in prefix", bv>>
           ELSE <<"push", bv>>

\* the checks of one iteration: <<outcome, next_bv after them>>
load_args_check(arg, bv) ==
  IF is_bound(arg)
  THEN LET mods == get_sort_mods(sort(arg))
       IN  IF mods[1] = "Err" THEN <<"panic: get_sort_mods().unwrap()", bv>>
           ELSE IF BitAnd(mods[2], SORT_STRICT) # {} THEN <<"make_sure: sort not strict", bv>>
           ELSE LET taken == take_next_bv(bv)
                    digit == bound_digit(arg)
                IN  IF taken[1] = "panic" THEN <<"panic: take_next_bv", bv>>
                    ELSE IF digit[1] = "Err" THEN <<"bound_digit", taken[3]>>
                    ELSE IF digit[2] # taken[2] THEN <<"make_sure: bound_digit == this_bv", taken[3]>>
                    ELSE <<"push", taken[3]>>
  ELSE LET dp == deps(arg)
       IN  IF dp[1] = "Err" THEN <<"panic: deps().unwrap()", bv>>
           ELSE IF BitAnd(dp[2], BitNot(MinusOne(bv))) # {} THEN <<"make_sure: deps in prefix", bv>>
           ELSE <<"push", bv>>

IsPanic(msg) == msg \in {"panic: get_sort_mods().unwrap()", "panic: take_next_bv",
                         "panic: deps().unwrap()", "panic: num.unwrap()"}

\* one iteration of the for loop, on the binder the iterator yields
load_args_iter(arg) ==
  /\ pc = "load_args_loop"
  /\ Len(args) < decl.num_args
  /\ LET idx == Len(args)
         r == load_args_check(arg, next_bv)
     IN  /\ args' = Append(args, arg)
         /\ IF r[1] = "push"
            THEN /\ next_bv' = r[2]
                 /\ heap' = Append(heap, ExprVar(idx, arg))
                 /\ bump' = bump + 2
                 /\ UNCHANGED <<pc, result, outline, stack, ustack, uheap, hstack, final_val>>
            ELSE IF IsPanic(r[1])
            THEN /\ next_bv' = r[2]
                 /\ Panic(r[1])
                 /\ UNCHANGED <<bump, heap, stack, ustack, uheap, hstack, final_val>>
            ELSE /\ ReturnErr(r[1])
                 /\ UNCHANGED bump
  /\ UNCHANGED <<stmt, decl, proof_null, entry_outline, bv_vars, compat_vars, hdr_vars>>

LoadArgsIter == \E arg \in TypePool : load_args_iter(arg)

\* v.pop()
Pop(v) == IF v = <<>> THEN v ELSE SubSeq(v, 1, Len(v) - 1)

\* load_args without the pop of the return slot
load_args_finish_nopop(kind, hp) == hp

\* the heap load_args leaves once the iterator is exhausted
load_args_finish(kind, hp) == IF kind = "TermDef" THEN Pop(hp) ELSE hp

\* the end of load_args: Ok(())
LoadArgsEnd ==
  /\ pc = "load_args_loop"
  /\ Len(args) = decl.num_args
  /\ heap' = load_args_finish(stmt.kind, heap)
  /\ pc' = "args_loaded"
  /\ UNCHANGED <<outline, bump, stack, ustack, uheap, hstack, next_bv, final_val, frame,
                 result, entry_outline, bv_vars, compat_vars, hdr_vars>>

\* a caller that takes every declaration for done once its binders are loaded
AfterLoadArgs_skip ==
  /\ pc = "args_loaded"
  /\ pc' = "add_declar"
  /\ DropSession
  /\ UNCHANGED <<outline, bump, frame, result, entry_outline, bv_vars, compat_vars, hdr_vars>>

\* verify_termdef's 'if term.is_def()': a plain term is done, its session dropped
AfterLoadArgs ==
  /\ pc = "args_loaded"
  /\ IF stmt.kind = "TermDef" /\ ~decl.is_def
     THEN /\ pc' = "add_declar"
          /\ DropSession
     ELSE /\ pc' = "run_proof"
          /\ UNCHANGED session
  /\ UNCHANGED <<outline, bump, frame, result, entry_outline, bv_vars, compat_vars, hdr_vars>>

(***************************************************************************)
(* run_proof (crate::mmb::proof): each instruction pushes one item on the  *)
(* stack or appends one entry to the heap; the replay ends with an error,  *)
(* or with Ok, on which the caller goes on to its closing checks.          *)
(***************************************************************************)
\* the binders load_args left on the heap
NumBinders == Len(load_args_finish(stmt.kind, args))

\* instructions replayed so far
ProofSteps == Len(stack) + (Len(heap) - NumBinders)

RunProofPush ==
  /\ pc = "run_proof"
  /\ ProofSteps < MaxSteps
  /\ \E item \in PushPool : stack' = Append(stack, item)
  /\ bump' = bump + 1
  /\ UNCHANGED <<outline, heap, ustack, uheap, hstack, next_bv, final_val, pc, frame,
                 result, entry_outline, bv_vars, compat_vars, hdr_vars>>

\* a reference to a heap entry
RunProofRef ==
  /\ pc = "run_proof"
  /\ ProofSteps < MaxSteps
  /\ \E i \in DOMAIN heap : stack' = Append(stack, heap[i])
  /\ UNCHANGED <<outline, bump, heap, ustack, uheap, hstack, next_bv, final_val, pc,
                 frame, result, entry_outline, bv_vars, compat_vars, hdr_vars>>

\* the top of the stack is appended to the heap
RunProofSave ==
  /\ pc = "run_proof"
  /\ ProofSteps < MaxSteps
  /\ stack # <<>>
  /\ heap' = Append(heap, stack[Len(stack)])
  /\ UNCHANGED <<outline, bump, stack, ustack, uheap, hstack, next_bv, final_val, pc,
                 frame, result, entry_outline, bv_vars, compat_vars, hdr_vars>>

RunProofErr ==
  /\ pc = "run_proof"
  /\ ReturnErr("run_proof")
  /\ UNCHANGED <<bump, frame, entry_outline, bv_vars, compat_vars, hdr_vars>>

(***************************************************************************)
(* run_proof returns Ok: the closing checks of verify_termdef and          *)
(* verify_assert, up to the call of run_unify.                             *)
(***************************************************************************)
\* v.iter().take(n)
\* an iterator adaptor that yields every element
Take_all(v, n) == v

Take(v, n) == SubSeq(v, 1, IF n < Len(v) THEN n ELSE Len(v))

Top(v) == v[Len(v)]

\* term.ret(): the return slot ends the term's binders
TermRet == args[Len(args)]

\* term.num_args_no_ret()
num_args_no_ret == decl.num_args - 1

\* the closing checks with the stack tested for emptiness before get_ty is called
verify_termdef_checks_emptyfirst(stk, ret, uhp) ==
  IF stk = <<>> THEN "none_err: stack.pop()"
  ELSE LET ty == get_ty(Top(stk))
       IN  IF Pop(stk) # <<>> THEN "make_sure: stack.is_empty()"
           ELSE IF ty[1] = "Err" THEN "Can't get type from a non-expr MmbItem"
           ELSE IF ~sorts_compatible(ty[2], ret) THEN "make_sure: sorts_compatible"
           ELSE IF uhp # <<>> THEN "make_sure: uheap.is_empty()"
           ELSE "Ok"

\* the closing checks with the arguments of sorts_compatible exchanged
verify_termdef_checks_swapped(stk, ret, uhp) ==
  IF stk = <<>> THEN "none_err: stack.pop()"
  ELSE LET ty == get_ty(Top(stk))
       IN  IF ty[1] = "Err" THEN "Can't get type from a non-expr MmbItem"
           ELSE IF Pop(stk) # <<>> THEN "make_sure: stack.is_empty()"
           ELSE IF ~sorts_compatible(ret, ty[2]) THEN "make_sure: sorts_compatible"
           ELSE IF uhp # <<>> THEN "make_sure: uheap.is_empty()"
           ELSE "Ok"

\* verify_termdef from the pop to the last make_sure!: "Ok" or the error
verify_termdef_checks(stk, ret, uhp) ==
  IF stk = <<>> THEN "none_err: stack.pop()"
  ELSE LET ty == get_ty(Top(stk))
       IN  IF ty[1] = "Err" THEN "Can't get type from a non-expr MmbItem"
           ELSE IF Pop(stk) # <<>> THEN "make_sure: stack.is_empty()"
           ELSE IF ~sorts_compatible(ty[2], ret) THEN "make_sure: sorts_compatible"
           ELSE IF uhp # <<>> THEN "make_sure: uheap.is_empty()"
           ELSE "Ok"

VerifyTermdefClose ==
  /\ pc = "run_proof"
  /\ stmt.kind = "TermDef"
  /\ LET r == verify_termdef_checks(stack, TermRet, uheap)
     IN  IF r = "Ok"
         THEN /\ stack' = Pop(stack)
              /\ final_val' = <<Top(stack)>>
              /\ uheap' = uheap \o Take(heap, num_args_no_ret)
              /\ pc' = "run_unify"
              /\ UNCHANGED <<result, outline, heap, ustack, hstack, next_bv>>
         ELSE ReturnErr(r)
  /\ UNCHANGED <<bump, frame, entry_outline, bv_vars, compat_vars, hdr_vars>>

\* a match whose axiom arm takes non-Proof items only
classify_noproof(kind, item) ==
  IF item.tag = "Proof" /\ kind = "Thm" THEN <<"Ok", item.sub[1]>>
  ELSE IF kind = "Axiom" /\ item.tag # "Proof" THEN <<"Ok", item>>
  ELSE <<"Expected a proof">>

\* the match of verify_assert on the popped item: <<"Ok", final_val>> or <<error>>
classify(kind, item) ==
  IF item.tag = "Proof" /\ kind = "Thm" THEN <<"Ok", item.sub[1]>>
  ELSE IF kind = "Axiom" THEN <<"Ok", item>>
  ELSE <<"Expected a proof">>

\* verify_assert from the pop to the last make_sure!
verify_assert_checks(kind, stk, uhp) ==
  IF stk = <<>> THEN <<"none_err: stack.pop()">>
  ELSE LET c == classify(kind, Top(stk))
       IN  IF c[1] # "Ok" THEN c
           ELSE IF Pop(stk) # <<>> THEN <<"make_sure: stack.is_empty()">>
           ELSE IF uhp # <<>> THEN <<"make_sure: uheap.is_empty()">>
           ELSE c

VerifyAssertClose ==
  /\ pc = "run_proof"
  /\ stmt.kind \in {"Axiom", "Thm"}
  /\ LET r == verify_assert_checks(stmt.kind, stack, uheap)
     IN  IF r[1] = "Ok"
         THEN /\ stack' = Pop(stack)
              /\ final_val' = <<r[2]>>
              /\ uheap' = uheap \o Take(heap, decl.num_args)
              /\ pc' = "run_unify"
              /\ UNCHANGED <<result, outline, heap, ustack, hstack, next_bv>>
         ELSE ReturnErr(r[1])
  /\ UNCHANGED <<bump, frame, entry_outline, bv_vars, compat_vars, hdr_vars>>

(***************************************************************************)
(* run_unify (crate::mmb::unify): matches the stored unify stream against  *)
(* final_val; Ok or an error.                                              *)
(***************************************************************************)
RunUnifyOk ==
  /\ pc = "run_unify"
  /\ pc' = "add_declar"
  /\ DropSession
  /\ UNCHANGED <<outline, bump, frame, result, entry_outline, bv_vars, compat_vars, hdr_vars>>

RunUnifyErr ==
  /\ pc = "run_unify"
  /\ ReturnErr("run_unify")
  /\ UNCHANGED <<bump, frame, entry_outline, bv_vars, compat_vars, hdr_vars>>

(***************************************************************************)
(* verify1's last line: Ok(outline.add_declar(stmt))                       *)
(***************************************************************************)
add_declar(o, s) == Append(o, s)

AddDeclar ==
  /\ pc = "add_declar"
  /\ outline' = add_declar(outline, stmt)
  /\ result' = "Ok"
  /\ pc' = "idle"
  /\ UNCHANGED <<bump, session, frame, entry_outline, bv_vars, compat_vars, hdr_vars>>

Next ==
  \/ Verify1Call
  \/ LoadArgsEnter
  \/ LoadArgsIter
  \/ LoadArgsEnd
  \/ AfterLoadArgs
  \/ RunProofPush
  \/ RunProofRef
  \/ RunProofSave
  \/ RunProofErr
  \/ VerifyTermdefClose
  \/ VerifyAssertClose
  \/ RunUnifyOk
  \/ RunUnifyErr
  \/ AddDeclar

Spec == Init /\ [][Next]_vars

(***************************************************************************)
(* take_next_bv called again and again on a fresh session, statement by    *)
(* statement.                                                              *)
(***************************************************************************)
\* the session new_from builds
InitBv ==
  /\ outline = <<>>
  /\ bump = 0
  /\ stack = <<>> /\ heap = <<>> /\ ustack = <<>> /\ uheap = <<>> /\ hstack = <<>>
  /\ next_bv = Bit(0)
  /\ pc = "idle"
  /\ stmt = NoStmt
  /\ decl = NoDecl
  /\ proof_null = TRUE
  /\ args = <<>>
  /\ final_val = <<>>
  /\ result = "none"
  /\ entry_outline = <<>>
  /\ bv_pc = "idle" /\ outgoing = {} /\ issued = <<>>
  /\ from_ty = {} /\ to_ty = {} /\ compat = <<>>
  /\ NoHeader

bv_rest == <<outline, bump, stack, heap, ustack, uheap, hstack, final_val, pc, frame,
             result, entry_outline, compat_vars, hdr_vars>>

\* let outgoing = self.next_bv
TakeNextBvEnter ==
  /\ bv_pc = "idle"
  /\ Len(issued) < MaxCalls
  /\ outgoing' = next_bv
  /\ bv_pc' = "assert"
  /\ UNCHANGED <<next_bv, issued, bv_rest>>

TakeNextBvAssert ==
  /\ bv_pc = "assert"
  /\ bv_pc' = IF take_next_bv_assert(outgoing) THEN "double" ELSE "panicked"
  /\ UNCHANGED <<next_bv, outgoing, issued, bv_rest>>

TakeNextBvDouble ==
  /\ bv_pc = "double"
  /\ next_bv' = take_next_bv_double(next_bv)
  /\ bv_pc' = "return"
  /\ UNCHANGED <<outgoing, issued, bv_rest>>

\* the caller receives outgoing
TakeNextBvReturn ==
  /\ bv_pc = "return"
  /\ issued' = Append(issued, outgoing)
  /\ bv_pc' = "idle"
  /\ UNCHANGED <<next_bv, outgoing, bv_rest>>

NextBv ==
  \/ TakeNextBvEnter
  \/ TakeNextBvAssert
  \/ TakeNextBvDouble
  \/ TakeNextBvReturn

SpecBv == InitBv /\ [][NextBv]_vars

(***************************************************************************)
(* sorts_compatible applied to a pair of Types.                            *)
(***************************************************************************)
\* the bit positions the Types of the pool are built from: both ends of the
\* dependency field, both ends of the sort field, and the bound flag
CompatBits == {0, 55, 56, 62, 63}

CompatPool == SUBSET CompatBits

InitCompat ==
  /\ outline = <<>>
  /\ bump = 0
  /\ stack = <<>> /\ heap = <<>> /\ ustack = <<>> /\ uheap = <<>> /\ hstack = <<>>
  /\ next_bv = {}
  /\ pc = "idle"
  /\ stmt = NoStmt
  /\ decl = NoDecl
  /\ proof_null = TRUE
  /\ args = <<>>
  /\ final_val = <<>>
  /\ result = "none"
  /\ entry_outline = <<>>
  /\ bv_pc = "idle" /\ outgoing = {} /\ issued = <<>>
  /\ from_ty \in CompatPool
  /\ to_ty \in CompatPool
  /\ compat = <<>>
  /\ NoHeader

SortsCompatibleCall ==
  /\ compat = <<>>
  /\ compat' = <<sorts_compatible(from_ty, to_ty)>>
  /\ UNCHANGED <<outline, bump, session, pc, frame, result, entry_outline, bv_vars,
                 from_ty, to_ty, hdr_vars>>

NextCompat == SortsCompatibleCall

SpecCompat == InitCompat /\ [][NextCompat]_vars

(***************************************************************************)
(* parse_header applied to a byte buffer, statement by statement.          *)
(***************************************************************************)
\* the bits of a natural number below 2^31, as a set of bit positions
NatBits(n) == {i \in 0..30 : (n \div (2 ^ i)) % 2 = 1}

MM0B_MAGIC == 1110461773

\* the little-endian value of a byte string, as a set of bit positions
LeValue(bytes) ==
  UNION {{8 * (k - 1) + i : i \in NatBits(bytes[k])} : k \in 1..Len(bytes)}

\* parse_u8, parse_u16, parse_u32, parse_u64: the first w bytes as a
\* little-endian integer and the rest of the buffer, or an error when fewer
\* than w bytes are left
parse_ok(src, w) == Len(src) >= w
parse_val(src, w) == LeValue(SubSeq(src, 1, w))
parse_rest(src, w) == SubSeq(src, w + 1, Len(src))

\* the widths of version, num_sorts, reserved, num_terms, num_thms,
\* terms_start, thms_start, proof_stream_start, reserved2, index_start
FieldWidths == <<1, 1, 2, 4, 4, 4, 4, 4, 4, 8>>

\* the four leading bytes of the buffers tried: the magic number, the magic
\* number with its last byte changed, and zeros
MagicBytes == {<<77, 77, 48, 66>>, <<77, 77, 48, 67>>, <<0, 0, 0, 0>>}

\* the byte every later position of a buffer holds
FillBytes == {0, 255}

\* buffers of every length up to MaxLen
HeaderPool ==
  {[k \in 1..n |-> IF k <= 4 THEN m[k] ELSE f] :
     n \in 0..MaxLen, m \in MagicBytes, f \in FillBytes}

InitHeader ==
  /\ outline = <<>>
  /\ bump = 0
  /\ stack = <<>> /\ heap = <<>> /\ ustack = <<>> /\ uheap = <<>> /\ hstack = <<>>
  /\ next_bv = {}
  /\ pc = "idle"
  /\ stmt = NoStmt
  /\ decl = NoDecl
  /\ proof_null = TRUE
  /\ args = <<>>
  /\ final_val = <<>>
  /\ result = "none"
  /\ entry_outline = <<>>
  /\ bv_pc = "idle" /\ outgoing = {} /\ issued = <<>>
  /\ from_ty = {} /\ to_ty = {} /\ compat = <<>>
  /\ mmb \in HeaderPool
  /\ source = mmb
  /\ hdr_pc = "parse_magic"
  /\ header = <<>>
  /\ hdr_result = "none"

hdr_rest == <<outline, bump, session, pc, frame, result, entry_outline, bv_vars,
              compat_vars, mmb>>

\* let (magic, source) = parse_u32(mmb)?
ParseHeaderMagic ==
  /\ hdr_pc = "parse_magic"
  /\ IF parse_ok(mmb, 4)
     THEN /\ header' = <<parse_val(mmb, 4)>>
          /\ source' = parse_rest(mmb, 4)
          /\ hdr_pc' = "assert_magic"
          /\ UNCHANGED hdr_result
     ELSE /\ hdr_result' = "Err"
          /\ hdr_pc' = "done"
          /\ UNCHANGED <<header, source>>
  /\ UNCHANGED hdr_rest

\* assert_eq!(magic, MM0B_MAGIC)
assert_magic(magic) == magic = NatBits(MM0B_MAGIC)

ParseHeaderAssert ==
  /\ hdr_pc = "assert_magic"
  /\ IF assert_magic(header[1])
     THEN /\ hdr_pc' = "fields"
          /\ UNCHANGED hdr_result
     ELSE /\ hdr_result' = "panic"
          /\ hdr_pc' = "panicked"
  /\ UNCHANGED <<header, source, hdr_rest>>

\* the next of the ten parse calls after the magic, each with `?`
ParseHeaderField ==
  /\ hdr_pc = "fields"
  /\ LET w == FieldWidths[Len(header)]
     IN IF parse_ok(source, w)
        THEN /\ header' = Append(header, parse_val(source, w))
             /\ source' = parse_rest(source, w)
             /\ hdr_pc' = IF Len(header) = Len(FieldWidths) THEN "finish" ELSE "fields"
             /\ UNCHANGED hdr_result
        ELSE /\ hdr_result' = "Err"
             /\ hdr_pc' = "done"
             /\ UNCHANGED <<header, source>>
  /\ UNCHANGED hdr_rest

\* sort_data_start = u32::try_from(mmb.len() - source.len()); Ok(Header {..}).
\* The difference is a count of bytes already consumed, so the conversion
\* cannot fail.
ParseHeaderFinish ==
  /\ hdr_pc = "finish"
  /\ header' = Append(header, Len(mmb) - Len(source))
  /\ hdr_result' = "Ok"
  /\ hdr_pc' = "done"
  /\ UNCHANGED <<source, hdr_rest>>

NextHeader ==
  \/ ParseHeaderMagic
  \/ ParseHeaderAssert
  \/ ParseHeaderField
  \/ ParseHeaderFinish

SpecHeader == InitHeader /\ [][NextHeader]_vars

\* the sort_data_start of a returned Header
sort_data_start == header[Len(header)]

\* the buffer starts with the magic number
RightMagic == Len(mmb) >= 4 /\ LeValue(SubSeq(mmb, 1, 4)) = NatBits(MM0B_MAGIC)

\* parse_header has returned or aborted
HeaderDone == hdr_pc \in {"done", "panicked"}

(***************************************************************************)
(* Properties of load_args.                                                *)
(***************************************************************************)
\* the low field (bits 0..55) a binder records
LowField(ty) == BitAnd(ty, TYPE_DEPS_MASK)

\* how many bound binders precede position i of the list a
BoundBefore(a, i) == Cardinality({j \in DOMAIN a : j < i /\ is_bound(a[j])})

\* the digits of the bound binders that precede position i, as one mask
DigitsBefore(a, i) == UNION {LowField(a[j]) : j \in {k \in DOMAIN a : k < i /\ is_bound(a[k])}}

\* every bound binder of a records the digit 2^k, k the bound binders before it
WellNumbered(a) == \A i \in DOMAIN a : is_bound(a[i]) => LowField(a[i]) = Bit(BoundBefore(a, i))

\* every non-bound binder of a depends only on bound binders to its left
PrefixDeps(a) == \A i \in DOMAIN a : ~is_bound(a[i]) => LowField(a[i]) \subseteq DigitsBefore(a, i)

\* the sort of the binder is declared and carries STRICT
StrictSort(ty) ==
  /\ get_sort_mods(sort(ty))[1] = "Ok"
  /\ BitAnd(get_sort_mods(sort(ty))[2], SORT_STRICT) # {}

\* the binder's sort is declared and not strict
PlainSort(ty) ==
  /\ get_sort_mods(sort(ty))[1] = "Ok"
  /\ BitAnd(get_sort_mods(sort(ty))[2], SORT_STRICT) = {}

\* load_args has returned Ok(()) and its caller has not yet moved on
LoadArgsOk == pc = "args_loaded"

\* the binders consumed by the call in progress or by the latest call
LastArg == args[Len(args)]

\* C1: load_args succeeds only on a list whose k-th bound binder (k = 0, 1, ...)
\* records the digit 2^k; a bound binder of a declared, non-strict sort whose
\* digit differs from the one take_next_bv issues for it ends the call with the
\* error of the digit make_sure!, and no list with a misnumbered bound binder
\* gets past load_args.
C1_BoundNumbering ==
  /\ LoadArgsOk => WellNumbered(args)
  /\ ~WellNumbered(args) =>
       /\ pc \in {"idle", "panicked"}
       /\ result \in {"make_sure: bound_digit == this_bv", "make_sure: sort not strict",
                      "panic: get_sort_mods().unwrap()"}
       /\ PlainSort(LastArg) => (pc = "idle" /\ result = "make_sure: bound_digit == this_bv")

\* the list (bound digit 1, bound digit 4) has been rejected for its second digit
C1_Witness ==
  /\ pc = "idle"
  /\ result = "make_sure: bound_digit == this_bv"
  /\ args = <<MkType(TRUE, 0, Bit(0)), MkType(TRUE, 0, Bit(2))>>

\* C2: load_args succeeds only on a list in which every non-bound binder's
\* dependency mask is a subset of the digits of the bound binders before it; a
\* non-bound binder that depends on a slot not yet introduced ends the call with
\* the error of the dependency make_sure!.
C2_PrefixRule ==
  /\ LoadArgsOk => PrefixDeps(args)
  /\ ~PrefixDeps(args) =>
       /\ pc = "idle"
       /\ result = "make_sure: deps in prefix"
       /\ ~is_bound(LastArg)
       /\ ~(LowField(LastArg) \subseteq DigitsBefore(args, Len(args)))

\* a first binder that is not bound and depends on bit 0 has been rejected
C2_Witness ==
  /\ pc = "idle"
  /\ result = "make_sure: deps in prefix"
  /\ args = <<MkType(FALSE, 0, Bit(0))>>

\* C3: load_args never succeeds on a list that holds a bound binder of a STRICT
\* sort: reaching such a binder ends the call with the error of the strictness
\* make_sure!, whatever digit the binder records, and the check comes before
\* take_next_bv: on a strict bound binder the iteration fails with the counter
\* as it was.
C3_StrictRejected ==
  /\ LoadArgsOk => \A i \in DOMAIN args : ~(is_bound(args[i]) /\ StrictSort(args[i]))
  /\ (\E i \in DOMAIN args : is_bound(args[i]) /\ StrictSort(args[i])) =>
       /\ pc = "idle"
       /\ result = "make_sure: sort not strict"
       /\ is_bound(LastArg) /\ StrictSort(LastArg)
  /\ pc = "load_args_loop" =>
       \A arg \in TypePool :
         (is_bound(arg) /\ StrictSort(arg)) =>
           load_args_check(arg, next_bv) = <<"make_sure: sort not strict", next_bv>>

\* a strict bound binder that records a wrong digit has been rejected as strict
C3_Witness ==
  /\ pc = "idle"
  /\ result = "make_sure: sort not strict"
  /\ args = <<MkType(TRUE, 0, Bit(0)), MkType(TRUE, 2, Bit(2))>>

\* the heap that holds the first m binders of a, entry i being Var{idx: i, ty}
BinderHeap(a, m) == [i \in 1..m |-> ExprVar(i - 1, a[i])]

\* C4: when load_args returns Ok on n binders, the heap holds the binders in
\* declared order, entry i being Expr(Var{idx: i, ty: binder i}): all n of them
\* for an axiom or theorem, the first n-1 for a term or definition.
C4_HeapAfterLoadArgs ==
  LoadArgsOk =>
    /\ Len(args) = decl.num_args
    /\ stmt.kind \in {"Axiom", "Thm"} => heap = BinderHeap(args, Len(args))
    /\ stmt.kind = "TermDef" => heap = BinderHeap(args, Len(args) - 1)

\* (bound non-strict digit 1, non-bound deps {bit 0}) loaded for a term: one entry
C4_Witness ==
  /\ LoadArgsOk
  /\ stmt.kind = "TermDef"
  /\ args = <<MkType(TRUE, 0, Bit(0)), MkType(FALSE, 0, Bit(0))>>
  /\ heap = <<ExprVar(0, MkType(TRUE, 0, Bit(0)))>>

(***************************************************************************)
(* Properties of take_next_bv (checked under SpecBv).                      *)
(***************************************************************************)
\* C5: from a fresh counter the first 55 calls return 1, 2, 4, ..., 2^54 in that
\* order, and no 56th call returns: take_next_bv fails on it.
C5_Limit55 ==
  /\ \A k \in DOMAIN issued : k <= 55 => issued[k] = Bit(k - 1)
  /\ Len(issued) <= 55
  /\ bv_pc = "panicked" => Len(issued) = 55

(***************************************************************************)
(* Properties of sorts_compatible (checked under SpecCompat).              *)
(***************************************************************************)
\* the call has been made
Compared == compat # <<>>

\* bits 56..63: the sort field and the bound flag
HighField(ty) == BitAnd(ty, BitNot(TYPE_DEPS_MASK))

\* C6 as stated: for a non-bound t, sorts_compatible(t, t') holds exactly when
\* t and t' have the same dependency mask (bits 0..55).
C6_DepsDecide ==
  (Compared /\ ~is_bound(from_ty)) =>
    (compat[1] <=> LowField(from_ty) = LowField(to_ty))

\* C6, amended: for a non-bound t, sorts_compatible(t, t') holds exactly when t
\* and t' agree on bits 56..63 (the sort field and the bound flag), whatever the
\* two dependency masks are.
C6_HighBitsDecide ==
  (Compared /\ ~is_bound(from_ty)) =>
    (compat[1] <=> HighField(from_ty) = HighField(to_ty))

\* a non-bound type found compatible with a type of another dependency mask
C6_Witness ==
  /\ Compared
  /\ compat[1]
  /\ ~is_bound(from_ty)
  /\ HighField(from_ty) # {}
  /\ LowField(from_ty) # LowField(to_ty)

\* C7: sorts_compatible(t, t) is true of every Type t.
C7_Reflexive ==
  (Compared /\ from_ty = to_ty) => compat[1]

\* a bound type with sort and dependency bits set, compared with itself
C7_Witness ==
  /\ Compared
  /\ from_ty = to_ty
  /\ from_ty = {0, 55, 56, 62, 63}
  /\ compat[1]

(***************************************************************************)
(* Properties of the closing checks.                                       *)
(***************************************************************************)
\* the step in which run_proof has returned Ok and the caller's closing checks run
CloseStep ==
  /\ pc = "run_proof"
  /\ \/ pc' = "run_unify"
     \/ pc' = "idle" /\ result' # "run_proof"

\* C8 as stated: on a definition, an empty stack fails with the missing-value
\* error, more than one item fails with the stack-not-empty error whatever the
\* items are, and the checks pass only on exactly one item.
C8_StackErrors ==
  [][(CloseStep /\ stmt.kind = "TermDef") =>
       /\ Len(stack) = 0 => (pc' = "idle" /\ result' = "none_err: stack.pop()")
       /\ Len(stack) > 1 => (pc' = "idle" /\ result' = "make_sure: stack.is_empty()")
       /\ pc' = "run_unify" => Len(stack) = 1]_vars

\* C8, amended: on a definition, an empty stack fails with the missing-value
\* error; more than one item fails with the stack-not-empty error when the top
\* item is an Expr and with the type error of get_ty when it is not; the checks
\* pass only on exactly one item.
C8_StackErrorsExprTop ==
  [][(CloseStep /\ stmt.kind = "TermDef") =>
       /\ decl.is_def
       /\ Len(stack) = 0 => (pc' = "idle" /\ result' = "none_err: stack.pop()")
       /\ (Len(stack) > 1 /\ Top(stack).tag = "Expr") =>
            (pc' = "idle" /\ result' = "make_sure: stack.is_empty()")
       /\ (Len(stack) > 1 /\ Top(stack).tag # "Expr") =>
            (pc' = "idle" /\ result' = "Can't get type from a non-expr MmbItem")
       /\ pc' = "run_unify" => Len(stack) = 1]_vars

\* a definition whose replay left more than one item has been rejected for it
C8_Witness ==
  /\ pc = "idle"
  /\ stmt.kind = "TermDef"
  /\ decl.is_def
  /\ result = "make_sure: stack.is_empty()"

\* C9: for a theorem a final item that is not a Proof fails with "Expected a
\* proof" and a Proof is unwrapped, its inner item becoming final_val; for an
\* axiom an item of any variant, Proof included, passes the classification and
\* is final_val as it is, so that a lone final item on an empty unify-heap always
\* takes an axiom to run_unify.
C9_Classification ==
  [][(CloseStep /\ stmt.kind \in {"Axiom", "Thm"} /\ stack # <<>>) =>
       /\ (stmt.kind = "Thm" /\ Top(stack).tag # "Proof") =>
            (pc' = "idle" /\ result' = "Expected a proof")
       /\ (stmt.kind = "Thm" /\ Top(stack).tag = "Proof") =>
            /\ result' # "Expected a proof"
            /\ pc' = "run_unify" => final_val' = <<Top(stack).sub[1]>>
       /\ stmt.kind = "Axiom" =>
            /\ result' # "Expected a proof"
            /\ pc' = "run_unify" => final_val' = <<Top(stack)>>
            /\ (Len(stack) = 1 /\ uheap = <<>>) => pc' = "run_unify"]_vars

\* an axiom whose final item is a Proof has reached unification with it
C9_Witness ==
  /\ pc = "run_unify"
  /\ stmt.kind = "Axiom"
  /\ final_val # <<>>
  /\ final_val[1].tag = "Proof"

(***************************************************************************)
(* Properties of verify1.                                                  *)
(***************************************************************************)
\* the pcs from which verify1 goes on to its last line
Succeeded ==
  \/ pc = "idle" /\ stmt'.kind = "Sort" /\ proof_null'
  \/ pc = "args_loaded" /\ stmt.kind = "TermDef" /\ ~decl.is_def
  \/ pc = "run_unify"

\* C10: the Outline changes only in verify1's last step, which appends the
\* declaration and returns Ok; that step is reached only from a null-proof sort,
\* from a plain term whose load_args succeeded, or from a successful run_unify;
\* while a call runs, and after one that returned an error or aborted, the
\* Outline is as it was when the call was made; after one that returned Ok it is
\* that Outline with the declaration appended.
C10_NoPartialCommit ==
  /\ [](pc # "idle" => outline = entry_outline)
  /\ []((pc = "idle" /\ result # "Ok") => outline = entry_outline)
  /\ []((pc = "idle" /\ result = "Ok") => outline = Append(entry_outline, stmt))
  /\ [][outline' # outline =>
          (pc = "add_declar" /\ pc' = "idle" /\ result' = "Ok"
             /\ outline' = Append(outline, stmt))]_vars
  /\ [][(pc # "add_declar" /\ pc' = "add_declar") => Succeeded]_vars
  /\ [][pc = "add_declar" => (pc' = "idle" /\ result' = "Ok")]_vars

\* a theorem has been verified and is the Outline's one entry
C10_Witness ==
  /\ pc = "idle"
  /\ result = "Ok"
  /\ stmt.kind = "Thm"
  /\ outline = <<stmt>>

(***************************************************************************)
(* The phases of one declaration.                                          *)
(***************************************************************************)
\* the declaration is one that carries a proof: a definition, an axiom or a theorem
WithProof == stmt.kind \in {"Axiom", "Thm"} \/ (stmt.kind = "TermDef" /\ decl.is_def)

\* the step enters the position p
Enters(p) == pc # p /\ pc' = p

\* C11 as stated: the last line of verify1, which commits the declaration, is
\* reached only from a successful unification, for every declaration.
C11_AllThroughUnify ==
  [][Enters("add_declar") => pc = "run_unify"]_vars

\* C11, amended: a definition, an axiom or a theorem is committed only from a
\* successful unification, unification is started only by the closing checks
\* that follow a successful proof replay, replay only after load_args returned
\* Ok, and load_args runs only on the fresh session of a new call; a sort is
\* committed straight from the call and a plain term right after load_args.
C11_PhaseOrder ==
  [][/\ Enters("load_args") => pc = "idle"
     /\ Enters("load_args_loop") => pc = "load_args"
     /\ Enters("args_loaded") => pc = "load_args_loop"
     /\ Enters("run_proof") => (pc = "args_loaded" /\ WithProof)
     /\ Enters("run_unify") => (pc = "run_proof" /\ WithProof)
     /\ (Enters("add_declar") /\ pc = "run_unify") => WithProof
     /\ (Enters("add_declar") /\ pc # "run_unify") =>
          \/ pc = "idle" /\ stmt'.kind = "Sort"
          \/ pc = "args_loaded" /\ stmt.kind = "TermDef" /\ ~decl.is_def
     /\ (pc = "add_declar" /\ pc' # "add_declar") => (pc' = "idle" /\ result' = "Ok")]_vars

\* a definition has passed load_args, replay and unification and is to be committed
C11_Witness ==
  /\ pc = "add_declar"
  /\ stmt.kind = "TermDef"
  /\ decl.is_def
  /\ Len(args) = 2

\* the latest call looked up a plain (non-defining) term
PlainTerm == stmt.kind = "TermDef" /\ stmt.num # <<>> /\ decl # NoDecl /\ ~decl.is_def

\* a session of the call exists
InSession == pc \in {"load_args", "load_args_loop", "args_loaded", "run_proof", "run_unify"}

\* C12: a sort with a non-null proof stream and a plain term with a non-null
\* proof stream end verify1 with an error and nothing committed, no session
\* having been built; a plain term with a null stream is never replayed nor
\* unified, and is at verify1's last line exactly when load_args has returned
\* Ok on all its binders.
C12_NullProofStreams ==
  /\ (stmt.kind = "Sort" /\ ~proof_null) =>
       /\ pc = "idle"
       /\ result = "mmb sorts must have null proof iterators"
       /\ outline = entry_outline
  /\ (PlainTerm /\ ~proof_null) =>
       /\ pc = "idle"
       /\ result = "mmb terms must have null proof iterators"
       /\ outline = entry_outline
       /\ args = <<>>
  /\ PlainTerm =>
       /\ pc \notin {"run_proof", "run_unify"}
       /\ result \notin {"run_proof", "run_unify"}
       /\ (pc = "add_declar" \/ result = "Ok") =>
            (proof_null /\ Len(args) = decl.num_args /\ WellNumbered(args) /\ PrefixDeps(args))

\* a plain term with a null proof stream has been committed
C12_Witness ==
  /\ PlainTerm
  /\ proof_null
  /\ pc = "idle"
  /\ result = "Ok"
  /\ outline = <<stmt>>
  /\ Len(args) = 2

(***************************************************************************)
(* Properties of parse_header.                                             *)
(***************************************************************************)
\* C13: parse_header ends with an error value on every buffer shorter than
\* the 40-byte layout and on every buffer whose first four bytes are not the
\* magic number, never aborting; on a buffer of at least 40 bytes with the
\* magic number it ends Ok with sort_data_start = 40.
C13_FormatError ==
  HeaderDone =>
    /\ (Len(mmb) < 40 \/ ~RightMagic) => hdr_result = "Err"
    /\ (Len(mmb) >= 40 /\ RightMagic) => (hdr_result = "Ok" /\ sort_data_start = 40)

(***************************************************************************)
(* Properties of the arena and of the session new_from builds.             *)
(***************************************************************************)
\* C14 as stated: every verify1 call, whatever the declaration, leaves its
\* first statement with the arena reset.
C14_ResetEveryCall == [][pc = "idle" => bump' = 0]_vars

\* C14: the arena is reset exactly by the calls that build a session (a
\* term/definition or axiom/theorem that passed its lookup and null-proof
\* check), before load_args; a sort declaration and a call that fails before
\* the session is built leave the arena as it was, and nothing else in a call
\* ever frees an allocation.
C14_ResetWithSession ==
  [][/\ (pc = "idle" /\ pc' = "load_args") =>
          (bump' = 0 /\ stmt'.kind \in {"TermDef", "Axiom", "Thm"})
     /\ (pc = "idle" /\ pc' # "load_args") => bump' = bump
     /\ pc # "idle" => bump' >= bump]_vars

\* a sort declaration has been verified with allocations of an earlier,
\* failed, declaration still in the arena
C14_Witness ==
  /\ stmt.kind = "Sort"
  /\ pc = "idle"
  /\ result = "Ok"
  /\ bump > 0

\* the session as new_from builds it
FreshSession ==
  /\ stack = <<>> /\ heap = <<>> /\ ustack = <<>> /\ uheap = <<>> /\ hstack = <<>>
  /\ next_bv = Bit(0)
  /\ final_val = <<>>

\* no session exists
NoSession ==
  /\ stack = <<>> /\ heap = <<>> /\ ustack = <<>> /\ uheap = <<>> /\ hstack = <<>>
  /\ next_bv = {}
  /\ final_val = <<>>

C16_AxiomNonProof ==
  (stmt.kind = "Axiom" /\ pc = "run_unify") => (final_val # <<>> /\ final_val[1].tag # "Proof")

\* C17: a definition goes on to unification only from a stack of exactly one
\* item that is an Expr whose Type is sorts_compatible, as `from`, with the
\* term's declared return type as `to`, and that item is final_val; a final
\* item that is a Proof, Conv or CoConv ends the call with get_ty's error, and
\* a single Expr of an incompatible Type ends it with the compatibility
\* error, the session being dropped without a seeded unify-heap and without
\* run_unify.
C17_DefinitionCast ==
  [][(CloseStep /\ stmt.kind = "TermDef") =>
       /\ pc' = "run_unify" =>
            /\ Len(stack) = 1
            /\ Top(stack).tag = "Expr"
            /\ sorts_compatible(Top(stack).ty, TermRet)
            /\ final_val' = <<Top(stack)>>
       /\ (stack # <<>> /\ Top(stack).tag # "Expr") =>
            /\ pc' = "idle"
            /\ result' = "Can't get type from a non-expr MmbItem"
            /\ uheap' = <<>>
       /\ (Len(stack) = 1 /\ Top(stack).tag = "Expr"
             /\ ~sorts_compatible(Top(stack).ty, TermRet)) =>
            /\ pc' = "idle"
            /\ result' = "make_sure: sorts_compatible"
            /\ uheap' = <<>>]_vars

\* a definition has reached unification with a bound variable cast to its
\* non-bound return type
C17_Witness ==
  /\ pc = "run_unify"
  /\ stmt.kind = "TermDef"
  /\ final_val # <<>>
  /\ final_val[1].tag = "Expr"
  /\ is_bound(final_val[1].ty)
  /\ ~is_bound(TermRet)

\* the number of heap entries load_args leaves: the binders, less the return
\* slot of a term
SeedCount == IF stmt.kind = "TermDef" THEN Len(args) - 1 ELSE Len(args)

\* C18: whenever run_unify is started the unify-heap holds, in order, exactly
\* the binder entries load_args created (all binders but the return slot for
\* a definition, all binders for an axiom or theorem), which are the first
\* entries of the heap; entries the replay appended to the heap are not in
\* it; and the closing checks never pass on a unify-heap that is not empty.
C18_UheapSeeding ==
  /\ pc = "run_unify" =>
       /\ uheap = BinderHeap(args, SeedCount)
       /\ Len(heap) >= SeedCount
       /\ uheap = SubSeq(heap, 1, SeedCount)
  /\ pc = "run_proof" => uheap = <<>>
  /\ \A it \in PushPool :
       /\ verify_termdef_checks(<<it>>, it.ty, <<it>>) # "Ok"
       /\ \A k \in {"Axiom", "Thm"} : verify_assert_checks(k, <<it>>, <<it>>)[1] # "Ok"

\* run_unify has been started on a heap that the replay had extended beyond
\* the binders
C18_Witness ==
  /\ pc = "run_unify"
  /\ Len(uheap) >= 1
  /\ Len(heap) > Len(uheap)

(***************************************************************************)
(* Properties of the bound-variable counter.                               *)
(***************************************************************************)
\* all the digits returned so far, as one mask
IssuedMask == UNION {issued[i] : i \in DOMAIN issued}

\* C19: between take_next_bv calls next_bv is 2^k, k being the number of calls
\* that have returned, and next_bv - 1 is the union of the digits returned;
\* the counter is always a single bit, so the doubling never wraps, and a
\* call made beyond the limit aborts without returning a digit or changing
\* the counter.
C19_CounterInvariant ==
  /\ bv_pc \in {"idle", "assert", "double", "panicked"} =>
       /\ next_bv = Bit(Len(issued))
       /\ MinusOne(next_bv) = IssuedMask
  /\ bv_pc = "return" => next_bv = Bit(Len(issued) + 1)
  /\ \A i \in DOMAIN issued : issued[i] = Bit(i - 1)
  /\ Cardinality(next_bv) = 1
  /\ next_bv \subseteq 0..56
  /\ bv_pc = "panicked" => (outgoing = next_bv /\ Shr(outgoing, 56) # {})

\* the call beyond the limit has aborted, all earlier calls having returned
C19_Witness ==
  /\ bv_pc = "panicked"
  /\ Len(issued) = 56
  /\ next_bv = Bit(56)

(***************************************************************************)
(* The direction of the cast sorts_compatible allows.                      *)
(***************************************************************************)
\* bits 56..62: the sort number
SortBits(ty) == ty \cap (56..62)

\* C20: sorts_compatible(from, to) implies that from and to have the same
\* sort bits and that from is bound whenever to is; and a bound from is
\* compatible with every to of the same sort bits, whatever bits 0..55 of
\* the two are.
C20_CastDirection ==
  Compared =>
    /\ compat[1] =>
         /\ SortBits(from_ty) = SortBits(to_ty)
         /\ (63 \in to_ty) => (63 \in from_ty)
    /\ (63 \in from_ty /\ SortBits(from_ty) = SortBits(to_ty)) => compat[1]

\* a bound variable has been found compatible with a non-bound Type of the
\* same sort and of different low bits
C20_Witness ==
  /\ Compared
  /\ compat[1]
  /\ 63 \in from_ty
  /\ 63 \notin to_ty
  /\ SortBits(from_ty) # {}
  /\ LowField(from_ty) # LowField(to_ty)

====
